---- MODULE Spec2Model ----
(***************************************************************************)
(* enumchecker: a two-pass static checker.  Pass one (collect_enums) walks *)
(* the syntax tree of every file and records, per class with a base named  *)
(* Enum, the set of names assigned in the class body.  Pass two            *)
(* (check_files) walks every file again and flags attribute accesses       *)
(* Target.member whose Target names a collected class and whose member is  *)
(* neither declared nor a built-in attribute of Enum.                      *)
(*                                                                         *)
(* A syntax-tree node is the record [k, s, a, b]: k is the node class,     *)
(* s its one string field (Name.id, Attribute.attr, ClassDef.name), a and  *)
(* b its child lists in the order of the node class's _fields (ClassDef:   *)
(* bases, body; Assign: targets, value; Attribute: value; Call: func,      *)
(* args; Subscript: value, slice).  A node is identified by its path, the  *)
(* sequence of child positions from the module root.                       *)
(***************************************************************************)
EXTENDS Integers, Sequences, FiniteSets, TLC

VARIABLES
    filenames,  \* main: the file list, each file given by what ast.parse makes of it
    pc,         \* position in main / in the function under test
    fi,         \* position of the `for fn in filenames` loop
    enums,      \* visitor.enums: the registry, class name -> set of member names
    badnodes,   \* visitor.badnodes: paths of the nodes flagged in the current file
    badfiles,   \* check_files: the bad-file counter
    warnings,   \* collect_enums: per file, the exception caught ("none" if none)
    exitcode,   \* what main returns
    arg,        \* the argument of the function under test (a class node or a list)
    res         \* what the function under test returned or raised

vars == <<filenames, pc, fi, enums, badnodes, badfiles, warnings, exitcode, arg, res>>

----------------------------------------------------------------------------
(* Bounds *)

MaxFiles == 2
MaxBody == 2
MaxTargets == 2
MaxNames == 4

----------------------------------------------------------------------------
(* Syntax-tree nodes *)

Node(k, s, a, b) == [k |-> k, s |-> s, a |-> a, b |-> b]

Name(id) == Node("Name", id, <<>>, <<>>)

Constant == Node("Constant", "", <<>>, <<>>)

Attribute(value, attr) == Node("Attribute", attr, <<value>>, <<>>)

Call(func, args) == Node("Call", "", <<func>>, args)

Subscript(value, slice) == Node("Subscript", "", <<value>>, <<slice>>)

Tuple(elts) == Node("Tuple", "", elts, <<>>)

Assign(targets, value) == Node("Assign", "", targets, <<value>>)

AnnAssign(target, value) == Node("AnnAssign", "", <<target>>, <<value>>)

Expr(value) == Node("Expr", "", <<value>>, <<>>)

Pass == Node("Pass", "", <<>>, <<>>)

FunctionDef(name, body) == Node("FunctionDef", name, <<>>, body)

ClassDef(name, bases, body) == Node("ClassDef", name, bases, body)

Module(body) == Node("Module", "", <<>>, body)

\* The parse of a file whose text is not valid Python: ast.parse raises SyntaxError.
SyntaxErrorFile == Node("SyntaxError", "", <<>>, <<>>)

\* ast.iter_child_nodes: the children in field order.
Children(node) == node.a \o node.b

RECURSIVE Paths(_)
\* Every path of the tree under node, the empty path (node itself) included.
Paths(node) ==
    {<<>>} \cup UNION {{<<j>> \o p : p \in Paths(Children(node)[j])} :
                          j \in 1..Len(Children(node))}

RECURSIVE NodeAt(_, _)
NodeAt(node, path) ==
    IF path = <<>> THEN node ELSE NodeAt(Children(node)[Head(path)], Tail(path))

IsPrefix(p, q) == Len(p) <= Len(q) /\ SubSeq(q, 1, Len(p)) = p

----------------------------------------------------------------------------
(* The declaration scanner's pure functions *)

NoExc == [exc |-> "none", arg |-> ""]

Raise(e, a) == [exc |-> e, arg |-> a]

Count(seq, x) == Cardinality({i \in 1..Len(seq) : seq[i] = x})

detect_duplicates_adjacent(names) ==
    LET dups == {i \in 1..(Len(names) - 1) : names[i] = names[i + 1]}
    IN  IF dups = {} THEN NoExc
        ELSE Raise("DuplicateEnumItemError",
                   names[CHOOSE i \in dups : \A j \in dups : i <= j])

\* collections.Counter keeps first-occurrence order, so the loop raises on the
\* first name (in list order) that occurs more than once.
detect_duplicates(names) ==
    LET dups == {i \in 1..Len(names) : Count(names, names[i]) > 1}
    IN  IF dups = {} THEN NoExc
        ELSE Raise("DuplicateEnumItemError",
                   names[CHOOSE i \in dups : \A j \in dups : i <= j])

RECURSIVE Chain(_)
\* itertools.chain(*lists)
Chain(lists) == IF lists = <<>> THEN <<>> ELSE Head(lists) \o Chain(Tail(lists))

AllTargets(assignments) == [i \in 1..Len(assignments) |-> assignments[i].a]

SeqToSet(seq) == {seq[i] : i \in 1..Len(seq)}

NameIds(targets) == [i \in 1..Len(targets) |-> targets[i].s]

\* Returns [exc, arg, value]: value is the returned set when exc = "none".
assignment_names_first_target(node) ==
    LET assignments == SelectSeq(node.b, LAMBDA n : n.k = "Assign")
        targets == [i \in 1..Len(assignments) |-> assignments[i].a[1]]
        names == NameIds(SelectSeq(targets, LAMBDA t : t.k = "Name"))
        dd == detect_duplicates(names)
    IN  [exc |-> dd.exc, arg |-> dd.arg,
         value |-> IF dd.exc = "none" THEN SeqToSet(names) ELSE {}]

assignment_names(node) ==
    LET assignments == SelectSeq(node.b, LAMBDA n : n.k = "Assign")
        targets == Chain(AllTargets(assignments))
        names == NameIds(SelectSeq(targets, LAMBDA t : t.k = "Name"))
        dd == detect_duplicates(names)
    IN  [exc |-> dd.exc, arg |-> dd.arg,
         value |-> IF dd.exc = "none" THEN SeqToSet(names) ELSE {}]

is_enum_class(node) ==
    /\ node.k = "ClassDef"
    /\ \E i \in 1..Len(node.a) : node.a[i].k = "Name" /\ node.a[i].s = "Enum"

----------------------------------------------------------------------------
(* EnumCollectorVisitor *)

\* The dict store d[k] = v.
Put(d, k, v) == [x \in DOMAIN d \cup {k} |-> IF x = k THEN v ELSE d[x]]

EmptyDict == [x \in {} |-> {}]

RECURSIVE Collector_visit(_, _)

RECURSIVE Collector_visit_from(_, _, _)
\* generic_visit's loop over the children, from child j on.  st is the visitor's
\* state [enums, exc, arg]; a raised exception ends the traversal where it is,
\* with self.enums as the visits so far left it.
Collector_visit_from(children, j, st) ==
    IF j > Len(children) \/ st.exc # "none" THEN st
    ELSE Collector_visit_from(children, j + 1, Collector_visit(children[j], st))

Collector_generic_visit(node, st) == Collector_visit_from(Children(node), 1, st)

visit_ClassDef_overwrite(node, st) ==
    IF ~is_enum_class(node) THEN st
    ELSE LET values == assignment_names(node)
         IN  IF values.exc # "none"
             THEN [st EXCEPT !.exc = values.exc, !.arg = values.arg]
             ELSE Collector_generic_visit(
                      node, [st EXCEPT !.enums = Put(st.enums, node.s, values.value)])

visit_ClassDef(node, st) ==
    IF ~is_enum_class(node) THEN st
    ELSE LET values == assignment_names(node)
         IN  IF values.exc # "none"
             THEN [st EXCEPT !.exc = values.exc, !.arg = values.arg]
             ELSE IF node.s \in DOMAIN st.enums /\ st.enums[node.s] # values.value
             THEN [st EXCEPT !.exc = "DuplicateEnumClassError", !.arg = node.s]
             ELSE Collector_generic_visit(
                      node, [st EXCEPT !.enums = Put(st.enums, node.s, values.value)])

\* NodeVisitor.visit: visit_ClassDef for a class definition, generic_visit otherwise.
Collector_visit(node, st) ==
    IF st.exc # "none" THEN st
    ELSE IF node.k = "ClassDef" THEN visit_ClassDef(node, st)
    ELSE Collector_generic_visit(node, st)

\* One iteration of collect_enums' loop: parse, visit, catch.  The three
\* exceptions are caught and logged; visitor.enums stays as the visit left it.
collect_file(file, d) ==
    IF file.k = "SyntaxError" THEN [enums |-> d, exc |-> "SyntaxError", arg |-> ""]
    ELSE Collector_visit(file, [enums |-> d, exc |-> "none", arg |-> ""])

----------------------------------------------------------------------------
(* EnumCheckerVisitor *)

\* set(dir(Enum)) | set(vars(Enum)) is computed by the interpreter; these are
\* members of it in every Python 3 release.
oklist == {"__members__", "__class__", "__doc__", "__module__"}

RECURSIVE Checker_visit(_, _, _, _)

RECURSIVE Checker_visit_from(_, _, _, _, _)
Checker_visit_from(children, j, path, d, bad) ==
    IF j > Len(children) THEN bad
    ELSE Checker_visit_from(children, j + 1, path, d,
                            Checker_visit(children[j], path \o <<j>>, d, bad))

Checker_generic_visit(node, path, d, bad) ==
    Checker_visit_from(Children(node), 1, path, d, bad)

\* The test of lines 86-90 for a node whose candidate class name is known.
IsBadAccess(enumclassname, attr, d) ==
    /\ enumclassname \in DOMAIN d
    /\ attr \notin d[enumclassname]
    /\ attr \notin oklist

visit_Attribute(node, path, d, bad) ==
    LET value == node.a[1]
    IN  IF value.k \notin {"Name", "Attribute"} THEN bad
        ELSE Checker_generic_visit(
                 node, path, d,
                 IF IsBadAccess(value.s, node.s, d) THEN Append(bad, path) ELSE bad)

Checker_visit(node, path, d, bad) ==
    IF node.k = "Attribute" THEN visit_Attribute(node, path, d, bad)
    ELSE Checker_generic_visit(node, path, d, bad)

\* EnumChecker.checkfile on a file that parses: the visitor [enums, badnodes]
\* after badnodes is reset and the tree visited.
checkfile_learns(file, visitor) ==
    LET bad == Checker_visit(file, <<>>, visitor.enums, <<>>)
    IN  [enums |-> IF bad = <<>> THEN visitor.enums
                   ELSE Put(visitor.enums, NodeAt(file, bad[1]).a[1].s,
                            visitor.enums[NodeAt(file, bad[1]).a[1].s]
                                \cup {NodeAt(file, bad[1]).s}),
         badnodes |-> bad]

checkfile(file, visitor) ==
    [enums |-> visitor.enums,
     badnodes |-> Checker_visit(file, <<>>, visitor.enums, <<>>)]

\* EnumChecker.summary's nodecount (its linecount only goes to the log).
summary(visitor) == Len(visitor.badnodes)

Min(x, y) == IF x <= y THEN x ELSE y

main_return_uncapped(n) == n

\* main's return value for check_files' result n.
main_return(n) == Min(n, 1)

----------------------------------------------------------------------------
(* Inputs *)

SeqsUpTo(S, n) == UNION {[1..k -> S] : k \in 0..n}

IdSet == {"a", "b"}

\* Targets of chained assignments: plain identifiers, an attribute path r.a
\* and a tuple (a, b).
TargetSet ==
    {Name(i) : i \in IdSet}
        \cup {Attribute(Name("r"), "a"), Tuple(<<Name("a"), Name("b")>>)}

\* x = ... = 1 over every chain of targets, and the subscript assignment r[a] = 1.
AssignSet ==
    {Assign(ts, Constant) : ts \in SeqsUpTo(TargetSet, MaxTargets) \ {<<>>}}
        \cup {Assign(<<Subscript(Name("r"), Name("a"))>>, Constant)}

\* Statements that are not ast.Assign: a method with an assignment inside, an
\* annotated assignment (a: int = 1) and pass.
OtherStmtSet ==
    {FunctionDef("something", <<Assign(<<Name("a")>>, Constant)>>),
     AnnAssign(Name("a"), Constant), Pass}

StmtSet == AssignSet \cup OtherStmtSet

NameListSet == SeqsUpTo({"a", "b", "c"}, MaxNames)

EnumBase == <<Name("Enum")>>

\* Bodies of enumeration classes: a = 1 and the chained m = n = 1 (m = m = 1
\* repeats an identifier).
EnumBodySet ==
    {<<Assign(<<Name(m)>>, Constant)>> : m \in IdSet}
        \cup {<<Assign(<<Name(m), Name(n)>>, Constant)>> : m, n \in IdSet}

BodyA == <<Assign(<<Name("a")>>, Constant)>>

FooA == ClassDef("Foo", EnumBase, BodyA)

\* Files that declare: one class Foo over every body; Foo over other base lists;
\* an enumeration nested in a function, in an enumeration and in a plain class;
\* Bar followed by Foo.
DeclFileSet ==
    {Module(<<ClassDef("Foo", EnumBase, body)>>) : body \in EnumBodySet}
        \cup {Module(<<ClassDef("Foo", bases, BodyA)>>) :
                 bases \in {<<Name("object")>>, <<Name("object"), Name("Enum")>>,
                            <<Attribute(Name("enum"), "Enum")>>}}
        \cup {Module(<<FunctionDef("f", <<FooA>>)>>),
              Module(<<ClassDef("Bar", EnumBase, BodyA \o <<FooA>>)>>),
              Module(<<ClassDef("Bar", <<Name("object")>>, <<FooA>>)>>)}
        \cup {Module(<<ClassDef("Bar", EnumBase, BodyA), ClassDef("Foo", EnumBase, body)>>) :
                 body \in EnumBodySet}

\* Members accessed: declared by some files, declared by none, built in.
UseAttrSet == {"a", "c", "__members__"}

\* Foo.m; pkg.Foo.m; f(Foo.m); f(Foo.m).x; and g.m, g no class.
UseExprSet ==
    UNION {{Attribute(Name("Foo"), m),
            Attribute(Attribute(Name("pkg"), "Foo"), m),
            Call(Name("f"), <<Attribute(Name("Foo"), m)>>),
            Attribute(Call(Name("f"), <<Attribute(Name("Foo"), m)>>), "x")} :
              m \in UseAttrSet}
        \cup {Attribute(Name("g"), "c")}

UseFileSet ==
    {Module(<<Expr(e)>>) : e \in UseExprSet}
        \cup {Module(<<FooA, Expr(Attribute(Name("Foo"), m))>>) : m \in UseAttrSet}
        \cup {Module(<<FooA, Expr(Attribute(Name("Foo"), "c")),
                       Expr(Attribute(Name("Foo"), "c"))>>)}

FileSet == DeclFileSet \cup UseFileSet \cup {SyntaxErrorFile}

----------------------------------------------------------------------------
(* main: collect_enums over the whole list, then check_files over it *)

Init ==
    /\ filenames \in SeqsUpTo(FileSet, MaxFiles)
    /\ pc = "collect_enums"
    /\ fi = 1
    /\ enums = EmptyDict
    /\ badnodes = <<>>
    /\ badfiles = 0
    /\ warnings = <<>>
    /\ exitcode = -1
    /\ arg = <<>>
    /\ res = NoExc

\* One iteration of collect_enums' loop.
CollectFile ==
    /\ pc = "collect_enums"
    /\ fi <= Len(filenames)
    /\ LET r == collect_file(filenames[fi], enums)
       IN  /\ enums' = r.enums
           /\ warnings' = Append(warnings, r.exc)
    /\ fi' = fi + 1
    /\ UNCHANGED <<filenames, pc, badnodes, badfiles, exitcode, arg, res>>

\* collect_enums returns visitor.enums; check_files builds the checker on it.
CollectReturn ==
    /\ pc = "collect_enums"
    /\ fi > Len(filenames)
    /\ pc' = "check_files"
    /\ fi' = 1
    /\ badfiles' = 0
    /\ UNCHANGED <<filenames, enums, badnodes, warnings, exitcode, arg, res>>

\* One iteration of check_files' loop on a file that parses.
CheckFile ==
    /\ pc = "check_files"
    /\ fi <= Len(filenames)
    /\ filenames[fi].k # "SyntaxError"
    /\ LET v == checkfile(filenames[fi], [enums |-> enums, badnodes |-> badnodes])
       IN  /\ enums' = v.enums
           /\ badnodes' = v.badnodes
           /\ badfiles' = IF summary(v) # 0 THEN badfiles + 1 ELSE badfiles
    /\ fi' = fi + 1
    /\ UNCHANGED <<filenames, pc, warnings, exitcode, arg, res>>

\* checkfile on a file that does not parse: badnodes is reset, ast.parse
\* raises SyntaxError, and nothing in check_files or main catches it.
CheckFileRaises ==
    /\ pc = "check_files"
    /\ fi <= Len(filenames)
    /\ filenames[fi].k = "SyntaxError"
    /\ badnodes' = <<>>
    /\ pc' = "raised"
    /\ UNCHANGED <<filenames, fi, enums, badfiles, warnings, exitcode, arg, res>>

\* check_files returns badfiles and main returns min(badfiles, 1).
MainReturn ==
    /\ pc = "check_files"
    /\ fi > Len(filenames)
    /\ exitcode' = main_return(badfiles)
    /\ pc' = "exit"
    /\ UNCHANGED <<filenames, fi, enums, badnodes, badfiles, warnings, arg, res>>

Next == CollectFile \/ CollectReturn \/ CheckFile \/ CheckFileRaises \/ MainReturn

Spec == Init /\ [][Next]_vars

----------------------------------------------------------------------------
(* assignment_names and detect_duplicates, called on their own *)

InitNames ==
    /\ \/ /\ pc = "assignment_names"
          /\ \E k \in 0..MaxBody :
                 \E body \in [1..k -> StmtSet] : arg = ClassDef("Foo", EnumBase, body)
       \/ /\ pc = "detect_duplicates"
          /\ arg \in NameListSet
    /\ res = NoExc
    /\ filenames = <<>>
    /\ fi = 1
    /\ enums = EmptyDict
    /\ badnodes = <<>>
    /\ badfiles = 0
    /\ warnings = <<>>
    /\ exitcode = -1

CallAssignmentNames ==
    /\ pc = "assignment_names"
    /\ res' = assignment_names(arg)
    /\ pc' = "assignment_names_done"
    /\ UNCHANGED <<filenames, fi, enums, badnodes, badfiles, warnings, exitcode, arg>>

CallDetectDuplicates ==
    /\ pc = "detect_duplicates"
    /\ res' = detect_duplicates(arg)
    /\ pc' = "detect_duplicates_done"
    /\ UNCHANGED <<filenames, fi, enums, badnodes, badfiles, warnings, exitcode, arg>>

NextNames == CallAssignmentNames \/ CallDetectDuplicates

SpecNames == InitNames /\ [][NextNames]_vars

----------------------------------------------------------------------------
(* Properties *)

\* The file whose flagged nodes badnodes holds: the one checked last.
FileChecked == pc \in {"check_files", "exit"} /\ fi > 1

LastChecked == filenames[fi - 1]

\* An attribute access whose base is an identifier or an attribute access.
IsCandidateAccess(n) == n.k = "Attribute" /\ n.a[1].k \in {"Name", "Attribute"}

\* An attribute access to a member that a registered class neither declares
\* nor inherits from Enum.
IsOffending(n) == IsCandidateAccess(n) /\ IsBadAccess(n.a[1].s, n.s, enums)

\* C1: every attribute access of the checked file whose base is an identifier
\* or an attribute access is flagged exactly once if its candidate class is
\* registered and its member is neither declared nor built in, and is not
\* flagged otherwise.
C1_FlaggedExactlyTheOffending ==
    FileChecked =>
        \A p \in Paths(LastChecked) :
            IsCandidateAccess(NodeAt(LastChecked, p)) =>
                Count(badnodes, p) = IF IsOffending(NodeAt(LastChecked, p)) THEN 1 ELSE 0

\* C2: an attribute access whose base is neither an identifier nor an
\* attribute access is not flagged itself, and every offending access nested
\* inside it is flagged.
C2_DescendsIntoOtherBases ==
    FileChecked =>
        \A p \in Paths(LastChecked) :
            (NodeAt(LastChecked, p).k = "Attribute" /\ ~IsCandidateAccess(NodeAt(LastChecked, p)))
                => /\ Count(badnodes, p) = 0
                   /\ \A q \in Paths(LastChecked) :
                          (IsPrefix(p, q) /\ IsOffending(NodeAt(LastChecked, q)))
                              => Count(badnodes, q) > 0

\* C3: a file that does not parse never aborts the run, in either phase.
C3_ParseFailureNeverAborts == pc # "raised"

\* C4: a file whose scan raises DuplicateEnumItemError or
\* DuplicateEnumClassError leaves the registry as it was before the file.
C4_FailedFileLeavesRegistry ==
    [][(Len(warnings') = Len(warnings) + 1
            /\ warnings'[Len(warnings')]
                   \in {"DuplicateEnumItemError", "DuplicateEnumClassError"})
           => enums' = enums]_vars

\* The members a class body declares: the identifiers that are targets of its
\* direct assignment statements.
DeclaredMembers(cls) ==
    {cls.b[i].a[j].s : <<i, j>> \in
        {ij \in (1..Len(cls.b)) \X (1..(MaxTargets + 1)) :
            /\ cls.b[ij[1]].k = "Assign"
            /\ ij[2] <= Len(cls.b[ij[1]].a)
            /\ cls.b[ij[1]].a[ij[2]].k = "Name"}}

\* How many times the identifier x is a target of the body's direct assignments.
TargetCount(cls, x) ==
    Cardinality({ij \in (1..Len(cls.b)) \X (1..(MaxTargets + 1)) :
                    /\ cls.b[ij[1]].k = "Assign"
                    /\ ij[2] <= Len(cls.b[ij[1]].a)
                    /\ cls.b[ij[1]].a[ij[2]].k = "Name"
                    /\ cls.b[ij[1]].a[ij[2]].s = x})

RECURSIVE Nodes(_)
\* Every node of the tree under node.
Nodes(node) == {node} \cup UNION {Nodes(Children(node)[j]) : j \in 1..Len(Children(node))}

\* The file collected by a CollectFile step, when its first statement is an
\* enumeration class without repeated members whose name is registered.
Redeclares(file) ==
    /\ file.k = "Module"
    /\ file.b # <<>>
    /\ is_enum_class(file.b[1])
    /\ file.b[1].s \in DOMAIN enums
    /\ \A x \in DeclaredMembers(file.b[1]) : TargetCount(file.b[1], x) = 1

\* C5: an entry of the registry never changes during the declaration phase; a
\* later declaration with the same members is accepted without error and one
\* with different members raises DuplicateEnumClassError and is discarded.
C5_FirstDeclarationWins ==
    [][/\ \A c \in DOMAIN enums : c \in DOMAIN enums' /\ enums'[c] = enums[c]
       /\ (pc = "collect_enums" /\ fi' = fi + 1 /\ Redeclares(filenames[fi]))
              => IF DeclaredMembers(filenames[fi].b[1]) = enums[filenames[fi].b[1].s]
                 THEN ({n \in Nodes(filenames[fi]) : n.k = "ClassDef"} = {filenames[fi].b[1]})
                          => /\ warnings'[fi] = "none"
                             /\ enums' = enums
                 ELSE /\ warnings'[fi] = "DuplicateEnumClassError"
                      /\ enums' = enums]_vars

C5_Witness ==
    /\ Len(warnings) = 2
    /\ warnings[2] = "DuplicateEnumClassError"
    /\ filenames[2] = Module(<<ClassDef("Foo", EnumBase, <<Assign(<<Name("b")>>, Constant)>>)>>)
    /\ enums = Put(EmptyDict, "Foo", {"a"})

\* C6: after a file is scanned without error the registry has an entry for
\* every class of the file with a base named Enum, wherever it is nested, and
\* every entry of the registry is such a class of some file.
C6_EveryEnumClassCollected ==
    /\ \A j \in 1..Len(warnings) :
           warnings[j] = "none" =>
               \A n \in Nodes(filenames[j]) : is_enum_class(n) => n.s \in DOMAIN enums
    /\ \A c \in DOMAIN enums :
           \E j \in 1..Len(warnings) :
               \E n \in Nodes(filenames[j]) : is_enum_class(n) /\ n.s = c

\* The files with a flagged access under the registry.
BadFileSet ==
    {j \in 1..Len(filenames) :
        filenames[j].k # "SyntaxError"
            /\ Checker_visit(filenames[j], <<>>, enums, <<>>) # <<>>}

\* C7: check_files returns the number of files with a flagged access and
\* main returns 0 when there is none and 1 otherwise.
C7_ExitCode ==
    pc = "exit" =>
        /\ badfiles = Cardinality(BadFileSet)
        /\ exitcode = IF BadFileSet = {} THEN 0 ELSE 1

C7_Witness == pc = "exit" /\ Cardinality(BadFileSet) = 2 /\ exitcode = 1

\* C8: assignment_names returns exactly the identifiers that are targets of
\* the body's direct assignment statements.
C8_AssignmentNames ==
    (pc = "assignment_names_done" /\ res.exc = "none") => res.value = DeclaredMembers(arg)

C8_Witness ==
    /\ pc = "assignment_names_done"
    /\ res.exc = "none"
    /\ arg.b = <<Assign(<<Name("a"), Attribute(Name("r"), "a")>>, Constant),
                 Assign(<<Tuple(<<Name("a"), Name("b")>>), Name("b")>>, Constant)>>
    /\ res.value = {"a", "b"}

NoRepeats(list) == \A i, j \in 1..Len(list) : list[i] = list[j] => i = j

\* C9: detect_duplicates succeeds on a list without repeats and raises
\* DuplicateEnumItemError naming a repeated value otherwise; a class body
\* that assigns an identifier more than once yields no member set.
C9_DetectDuplicates ==
    /\ pc = "detect_duplicates_done" =>
           IF NoRepeats(arg) THEN res.exc = "none"
           ELSE res.exc = "DuplicateEnumItemError" /\ Count(arg, res.arg) > 1
    /\ pc = "assignment_names_done" =>
           ((\E x \in IdSet : TargetCount(arg, x) > 1)
                => res.exc = "DuplicateEnumItemError" /\ TargetCount(arg, res.arg) > 1)

C9_Witness ==
    /\ pc = "detect_duplicates_done"
    /\ arg = <<"a", "b", "a", "c">>
    /\ res.exc = "DuplicateEnumItemError"
    /\ res.arg = "a"

\* C10: every file is collected before the first file is checked, and after
\* the declaration phase no step changes the registry.
C10_RegistryFrozen ==
    /\ [](pc # "collect_enums" => Len(warnings) = Len(filenames))
    /\ [][pc # "collect_enums" => enums' = enums]_vars

C10_Witness ==
    /\ pc = "check_files"
    /\ fi = 3
    /\ badnodes # <<>>
    /\ DOMAIN enums = {"Foo", "Bar"}

====
